---- MODULE Spec2Model ----
(***************************************************************************)
(* The itinerary preview page (PreviewPage) and the plan page (PlanPage)   *)
(* of the travel itinerary planner, as a state machine.                    *)
(*                                                                         *)
(* Strings are sequences of one-character strings.  A JavaScript value     *)
(* that may be null or undefined is a record with a "type" field, so that  *)
(* values of different JavaScript types stay comparable.                   *)
(***************************************************************************)
EXTENDS Integers, Sequences, FiniteSets, TLC

\* ------------------------------------------------------------------ bounds

\* Longest generated cost text handed to the cost normaliser on its own.
MaxLen == 3

\* Largest number of activity-alternatives requests in flight at once.
MaxInFlight == 2

\* ----------------------------------------------------- program constants

MAX_REGENERATIONS == 3

\* ---------------------------------------------------------------- strings

Digits == {"0", "1", "2", "3", "4", "5", "6", "7", "8", "9"}

DigitVal(c) ==
  CASE c = "0" -> 0 [] c = "1" -> 1 [] c = "2" -> 2 [] c = "3" -> 3
    [] c = "4" -> 4 [] c = "5" -> 5 [] c = "6" -> 6 [] c = "7" -> 7
    [] c = "8" -> 8 [] c = "9" -> 9

DigitChar(d) ==
  CASE d = 0 -> "0" [] d = 1 -> "1" [] d = 2 -> "2" [] d = 3 -> "3"
    [] d = 4 -> "4" [] d = 5 -> "5" [] d = 6 -> "6" [] d = 7 -> "7"
    [] d = 8 -> "8" [] d = 9 -> "9"

\* The regular expression class \s, as far as the texts of the model go.
IsSpace(c) == c = " "

\* One character of String.prototype.toLowerCase.
LowerChar(c) ==
  CASE c = "F" -> "f" [] c = "R" -> "r" [] c = "E" -> "e"
    [] c = "T" -> "t" [] c = "O" -> "o" [] c = "A" -> "a"
    [] c = "B" -> "b" [] c = "C" -> "c" [] c = "N" -> "n"
    [] c = "Y" -> "y" [] OTHER -> c

toLowerCase(s) == [i \in 1..Len(s) |-> LowerChar(s[i])]

\* String.prototype.includes
includes(s, sub) ==
  \E i \in 1..(Len(s) - Len(sub) + 1) : SubSeq(s, i, i + Len(sub) - 1) = sub

\* str.replace(/\D/g, "")
StripNonDigits(s) == SelectSeq(s, LAMBDA c : c \in Digits)

\* parseInt(digits) || 0 on a text of digits only: the empty text parses to
\* NaN, which || turns into 0.
RECURSIVE ParseIntOrZero(_)
ParseIntOrZero(ds) ==
  IF ds = <<>> THEN 0
  ELSE 10 * ParseIntOrZero(SubSeq(ds, 1, Len(ds) - 1)) + DigitVal(ds[Len(ds)])

\* String(n) for a non-negative integer n.
RECURSIVE NatToString(_)
NatToString(n) ==
  IF n < 10 THEN <<DigitChar(n)>>
  ELSE Append(NatToString(n \div 10), DigitChar(n % 10))

\* -------------------------------------------------------------- cost values

\* Activity.cost is a string, a number, undefined or null.
Undefined == [type |-> "undefined"]
Null == [type |-> "null"]
Str(s) == [type |-> "string", str |-> s]
Num(n) == [type |-> "number", num |-> n]

\* String(costStr)
String(v) == IF v.type = "number" THEN NatToString(v.num) ELSE v.str

\* Length of the match of /[-–—]|\s+to\s+/i that starts at position i
\* of s, or 0 when none starts there.  The en dash and the em dash are written
\* "ndash" and "mdash".
SpaceRun(s, i) ==
  IF i > Len(s) \/ ~IsSpace(s[i]) THEN 0
  ELSE LET ends == {j \in i..Len(s) : \A k \in i..j : IsSpace(s[k])}
       IN  Cardinality(ends)

SeparatorAt(s, i) ==
  IF s[i] \in {"-", "ndash", "mdash"} THEN 1
  ELSE LET a == SpaceRun(s, i)
           t == i + a
       IN  IF a > 0 /\ t + 1 <= Len(s)
              /\ LowerChar(s[t]) = "t" /\ LowerChar(s[t + 1]) = "o"
              /\ SpaceRun(s, t + 2) > 0
           THEN a + 2 + SpaceRun(s, t + 2)
           ELSE 0

\* rangeSeparators.test(str)
HasRangeSeparator(s) == \E i \in 1..Len(s) : SeparatorAt(s, i) > 0

\* str.split(rangeSeparators): the segments between successive leftmost matches.
RECURSIVE SplitFrom(_, _, _)
SplitFrom(s, start, i) ==
  IF i > Len(s) THEN <<SubSeq(s, start, Len(s))>>
  ELSE LET n == SeparatorAt(s, i)
       IN  IF n > 0
           THEN <<SubSeq(s, start, i - 1)>> \o SplitFrom(s, i + n, i + n)
           ELSE SplitFrom(s, start, i + 1)

split(s) == SplitFrom(s, 1, 1)

\* Math.max(...values) for a non-empty list of numbers.
MathMax(values) ==
  CHOOSE m \in {values[i] : i \in 1..Len(values)} :
    \A i \in 1..Len(values) : values[i] <= m

\* The module-level parseCost: a range resolves to its largest bound.
parseCost(costStr) ==
  IF costStr.type \in {"null", "undefined"} THEN 0
  ELSE LET str == String(costStr)
       IN  IF includes(toLowerCase(str), <<"f", "r", "e", "e">>) THEN 0
           ELSE IF HasRangeSeparator(str)
           THEN LET parts == split(str)
                    values == [i \in 1..Len(parts) |->
                                 ParseIntOrZero(StripNonDigits(parts[i]))]
                IN  MathMax(values)
           ELSE ParseIntOrZero(StripNonDigits(str))

\* PreviewPage_parseCost resolving a range as the module-level parseCost does.
PreviewPage_parseCostRanged(costStr) == parseCost(costStr)

\* The parseCost declared inside PreviewPage.  It shadows the module-level
\* one in every handler of the page and has no range branch.
PreviewPage_parseCost(costStr) ==
  IF costStr.type \in {"null", "undefined"} THEN 0
  ELSE LET str == String(costStr)
       IN  IF includes(toLowerCase(str), <<"f", "r", "e", "e">>) THEN 0
           ELSE ParseIntOrZero(StripNonDigits(str))


\* ------------------------------------------------------------- page values

\* The keys of DayPlan.activities.  One key is enough for a day to have a slot;
\* the itineraries of the model differ in their number of days.
Periods == {"morning"}

Activity(c) == [type |-> "activity", cost |-> c]
Context(d, p) == [type |-> "context", dayIndex |-> d, period |-> p]
Budget(a, t) == [type |-> "budget", activities |-> a, total |-> t]
Itinerary(days) == [type |-> "itinerary", days |-> days]

CostPlain == Str(<<"6">>)
CostRange == Str(<<"1", "-", "2">>)

\* The trip parameters submitted on the plan page.
FormData == [type |-> "formData", destination |-> "Bali"]

\* What the generation service (/api/generate) may answer: an opaque service,
\* so a sample of answers, of one day and of two.  In the "plain" answers every
\* activity costs "6"; in the "range" answers the last day's activity costs
\* "1-2", which the service counts as 2 in its budget.
Flavors == {"plain", "range"}
GeneratedDayCounts == {1, 2}

GeneratedDay(f, d, n) ==
  [p \in Periods |->
     IF f = "range" /\ d = n THEN Activity(CostRange) ELSE Activity(CostPlain)]

GenerationResult(f, n) ==
  [itinerary |-> Itinerary([d \in 1..n |-> GeneratedDay(f, d, n)]),
   budget    |-> IF f = "plain" THEN Budget(6 * n, 6 * n + 18)
                 ELSE Budget(6 * n - 4, 6 * n + 2),
   weather   |-> [type |-> "weather", summary |-> f, temperature |-> n],
   hotels    |-> <<[name |-> f, price_per_night |-> n]>>]

GenerationResults ==
  {GenerationResult(f, n) : f \in Flavors, n \in GeneratedDayCounts}

\* What the activity-alternatives service (/api/activity/regenerate) answers.
ServiceAlternatives == <<Activity(CostPlain), Activity(CostRange)>>

\* The activities the manual edit dialog may hand to its onSave callback.
EditedActivities == {Activity(CostPlain), Activity(CostRange)}

\* The value of the "currentTrip" item: JSON.stringify leaves out a field
\* that is undefined, and reading a field that is not there gives undefined.
StoredTrip(r, formData, count) ==
  [type |-> "item", itinerary |-> r.itinerary, budget |-> r.budget,
   weather |-> r.weather, hotels |-> r.hotels, formData |-> formData,
   regenerationCount |-> count]

\* ------------------------------------------------------------------- state

VARIABLES
  page,                   \* "plan", "previewInit" (mounted, effect not run), "preview", "left"
  planIsLoading,          \* PlanPage.isLoading
  localStorage,           \* the "currentTrip" item, Null when there is none
  itinerary, budget, weather, hotels, tripData,
  isLoading, isSaving, isSignedIn,
  isRegeneratingTrip, isFetchingAlternatives, regenerateModalOpen,
  alternatives, selectedContext,
  regenerationCount,
  manualEditModalOpen,
  deleteDialogOpen, itemToDelete,
  regenRequests,          \* full regenerations in flight: the count each one captured
  altRequests,            \* alternatives requests in flight: the context of each
  alternativesFor,        \* history: the context of the request whose answer
                          \* alternatives holds, Null when it holds none
  saveStage,              \* handleSave: "idle", "getUser" or "insert"
  lastError,              \* what the last step reported: "none", "uncaught" for an
                          \* exception that left its handler, or the failure a
                          \* catch block turned into a toast
  baseline,               \* history: the itinerary and budget last hydrated or generated
  costStr, result         \* the cost normaliser applied on its own

tripVars == <<itinerary, budget, weather, hotels, tripData, baseline>>
regenVars == <<regenerationCount, isRegeneratingTrip, regenRequests>>
altVars == <<isFetchingAlternatives, regenerateModalOpen, alternatives,
             selectedContext, altRequests, alternativesFor>>
deleteVars == <<deleteDialogOpen, itemToDelete>>
saveVars == <<isSaving, isSignedIn, saveStage>>
pageVars == <<page, planIsLoading, localStorage, isLoading>>
costVars == <<costStr, result>>

vars == <<tripVars, regenVars, altVars, manualEditModalOpen, deleteVars,
          saveVars, pageVars, lastError, costVars>>

NotComputed == [type |-> "pending"]

\* The useState initial values of PreviewPage, with nothing in flight.
PreviewPageInitialState ==
  /\ itinerary = Null /\ budget = Null /\ weather = Null /\ hotels = <<>>
  /\ tripData = Null /\ baseline = Null
  /\ isLoading = TRUE /\ isSaving = FALSE /\ isSignedIn = FALSE
  /\ isRegeneratingTrip = FALSE /\ isFetchingAlternatives = FALSE
  /\ regenerateModalOpen = FALSE /\ alternatives = <<>>
  /\ alternativesFor = Null
  /\ selectedContext = Null
  /\ regenerationCount = 0
  /\ manualEditModalOpen = FALSE
  /\ deleteDialogOpen = FALSE /\ itemToDelete = Null
  /\ regenRequests = <<>> /\ altRequests = <<>> /\ saveStage = "idle"

\* A fresh mount of PreviewPage: every useState is back at its initial value
\* and the requests of the previous document are gone.
FreshPreviewPage ==
  /\ itinerary' = Null /\ budget' = Null /\ weather' = Null /\ hotels' = <<>>
  /\ tripData' = Null /\ baseline' = Null
  /\ isLoading' = TRUE /\ isSaving' = FALSE /\ isSignedIn' = FALSE
  /\ isRegeneratingTrip' = FALSE /\ isFetchingAlternatives' = FALSE
  /\ regenerateModalOpen' = FALSE /\ alternatives' = <<>>
  /\ alternativesFor' = Null
  /\ selectedContext' = Null
  /\ regenerationCount' = 0
  /\ manualEditModalOpen' = FALSE
  /\ deleteDialogOpen' = FALSE /\ itemToDelete' = Null
  /\ regenRequests' = <<>> /\ altRequests' = <<>> /\ saveStage' = "idle"

\* ------------------------------------------------------------- plan page

\* handleGenerate up to its fetch.
handleGenerate ==
  /\ page = "plan" /\ ~planIsLoading
  /\ planIsLoading' = TRUE
  /\ lastError' = "none"
  /\ UNCHANGED <<tripVars, regenVars, altVars, manualEditModalOpen, deleteVars,
                 saveVars, page, localStorage, isLoading, costVars>>

\* The fetch answered OK: the result is stored (without a regenerationCount)
\* and the router moves to the preview page.
GenerateResponseOk ==
  /\ page = "plan" /\ planIsLoading
  /\ \E r \in GenerationResults :
       localStorage' = StoredTrip(r, FormData, Undefined)
  /\ page' = "previewInit"
  /\ planIsLoading' = FALSE
  /\ FreshPreviewPage
  /\ lastError' = "none"
  /\ UNCHANGED costVars

\* The fetch failed or answered non-OK: caught, isLoading back to false.
GenerateResponseFail ==
  /\ page = "plan" /\ planIsLoading
  /\ planIsLoading' = FALSE
  /\ lastError' = "generate"
  /\ UNCHANGED <<tripVars, regenVars, altVars, manualEditModalOpen, deleteVars,
                 saveVars, page, localStorage, isLoading, costVars>>

\* ---------------------------------------------------------- preview page

\* parsed.regenerationCount || 0
CountOrZero(v) == IF v.type = "number" THEN v.num ELSE 0

\* The mount effect: hydrate from the stored item, or go to the plan page.
useEffect ==
  /\ page = "previewInit"
  /\ IF localStorage # Null
     THEN /\ itinerary' = localStorage.itinerary
          /\ budget' = localStorage.budget
          /\ weather' = localStorage.weather
          /\ hotels' = localStorage.hotels
          /\ tripData' = localStorage.formData
          /\ regenerationCount' = CountOrZero(localStorage.regenerationCount)
          /\ baseline' = [itinerary |-> localStorage.itinerary,
                          budget |-> localStorage.budget]
          /\ page' = "preview"
     ELSE /\ page' = "plan"
          /\ UNCHANGED <<tripVars, regenerationCount>>
  /\ lastError' = "none"
  /\ UNCHANGED <<isRegeneratingTrip, regenRequests, altVars, manualEditModalOpen,
                 deleteVars, saveVars, planIsLoading, localStorage, isLoading,
                 costVars>>

\* checkAuth resolves: supabase.auth.getUser() answers with a user or none.
checkAuth ==
  /\ page = "preview" /\ isLoading
  /\ \E user \in BOOLEAN : isSignedIn' = user
  /\ isLoading' = FALSE
  /\ lastError' = "none"
  /\ UNCHANGED <<tripVars, regenVars, altVars, manualEditModalOpen, deleteVars,
                 isSaving, saveStage, page, planIsLoading, localStorage, costVars>>

\* Rendered without the LoadingScreen of a running full regeneration: TripView
\* stays on the page while the request is in flight.
RenderedWhileRegenerating ==
  /\ page = "preview"
  /\ ~isLoading
  /\ tripData # Null /\ itinerary # Null /\ budget # Null

\* TripView and the dialogs are rendered, so their callbacks can be invoked:
\* the page shows LoadingScreen instead while loading or regenerating.
Rendered ==
  /\ page = "preview"
  /\ ~isLoading /\ ~isRegeneratingTrip
  /\ tripData # Null /\ itinerary # Null /\ budget # Null

\* ------------------------------------------------------ full regeneration

\* newCount = regenerationCount + 1, on the count the handler's closure captured.
NewCount(count) == count + 1

\* CanRegenerateFull with the comparison off by one.
CanRegenerateFullInclusive ==
  tripData # Null /\ regenerationCount <= MAX_REGENERATIONS

\* The gate of handleFullRegeneration: it returns at once unless this holds.
CanRegenerateFull == tripData # Null /\ regenerationCount < MAX_REGENERATIONS

\* What a full regeneration may replace or write.
Bundle == <<itinerary, budget, weather, hotels, regenerationCount, localStorage>>

\* handleFullRegeneration up to its fetch.  The request keeps the
\* regenerationCount of the render whose handler was invoked; "before" is
\* history, the bundle as it was when the attempt began.
handleFullRegeneration ==
  /\ Rendered
  /\ IF CanRegenerateFull
     THEN /\ isRegeneratingTrip' = TRUE
          /\ regenRequests' = Append(regenRequests,
                                     [count |-> regenerationCount, before |-> Bundle])
     ELSE UNCHANGED <<isRegeneratingTrip, regenRequests>>
  /\ lastError' = "none"
  /\ UNCHANGED <<tripVars, regenerationCount, altVars, manualEditModalOpen,
                 deleteVars, saveVars, pageVars, costVars>>

RemoveAt(seq, i) == SubSeq(seq, 1, i - 1) \o SubSeq(seq, i + 1, Len(seq))

\* The fetch answered OK and its JSON was read: everything is replaced, the
\* count goes up by one and the stored item is overwritten.
RegenerationResponseOk ==
  /\ page = "preview"
  /\ \E i \in 1..Len(regenRequests), r \in GenerationResults :
       LET newCount == NewCount(regenRequests[i].count) IN
       /\ itinerary' = r.itinerary
       /\ budget' = r.budget
       /\ weather' = r.weather
       /\ hotels' = r.hotels
       /\ regenerationCount' = newCount
       /\ localStorage' = StoredTrip(r, tripData, Num(newCount))
       /\ baseline' = [itinerary |-> r.itinerary, budget |-> r.budget]
       /\ regenRequests' = RemoveAt(regenRequests, i)
  /\ isRegeneratingTrip' = FALSE
  /\ lastError' = "none"
  /\ UNCHANGED <<tripData, altVars, manualEditModalOpen, deleteVars, saveVars,
                 page, planIsLoading, isLoading, costVars>>

\* RegenerationFailure with the count raised in the finally block.
RegenerationFailureCounts ==
  /\ isRegeneratingTrip' = FALSE
  /\ regenerationCount' = regenerationCount + 1
  /\ UNCHANGED <<tripVars, localStorage>>

\* What the catch and finally blocks of handleFullRegeneration change.
RegenerationFailure ==
  /\ isRegeneratingTrip' = FALSE
  /\ UNCHANGED <<tripVars, regenerationCount, localStorage>>

\* The fetch failed or answered non-OK.
RegenerationResponseFail ==
  /\ page = "preview"
  /\ \E i \in 1..Len(regenRequests) : regenRequests' = RemoveAt(regenRequests, i)
  /\ RegenerationFailure
  /\ lastError' = "regenerate"
  /\ UNCHANGED <<altVars, manualEditModalOpen, deleteVars, saveVars,
                 page, planIsLoading, isLoading, costVars>>

\* -------------------------------------------------------------------- save

\* handleSave up to its first await.  TripView gets the handler only when a
\* user is signed in; one save is in flight at a time.
handleSave ==
  /\ Rendered /\ isSignedIn /\ saveStage = "idle"
  /\ isSaving' = TRUE
  /\ saveStage' = "getUser"
  /\ lastError' = "none"
  /\ UNCHANGED <<tripVars, regenVars, altVars, manualEditModalOpen, deleteVars,
                 isSignedIn, pageVars, costVars>>

\* supabase.auth.getUser() answers: without a user the page moves to /auth.
SaveGetUserResponse ==
  /\ page = "preview" /\ saveStage = "getUser"
  /\ \E user \in BOOLEAN :
       IF user
       THEN /\ saveStage' = "insert"
            /\ lastError' = "none"
            /\ UNCHANGED <<isSaving, page>>
       ELSE /\ saveStage' = "idle"
            /\ isSaving' = FALSE
            /\ page' = "left"
            /\ lastError' = "signin"
  /\ UNCHANGED <<tripVars, regenVars, altVars, manualEditModalOpen, deleteVars,
                 isSignedIn, planIsLoading, localStorage, isLoading, costVars>>

\* What a failed insert changes.
SaveFailure ==
  /\ isSaving' = FALSE
  /\ UNCHANGED <<tripVars, regenerationCount, localStorage, page>>

\* The insert answers: an error is reported, a stored row opens its page
\* (without a row in the answer the page stays).
SaveInsertResponse ==
  /\ page = "preview" /\ saveStage = "insert"
  /\ saveStage' = "idle"
  /\ \/ /\ SaveFailure
        /\ lastError' = "save"
     \/ /\ \E row \in BOOLEAN : page' = IF row THEN "left" ELSE page
        /\ lastError' = "none"
        /\ UNCHANGED <<tripVars, regenerationCount, localStorage, isSaving>>
  /\ UNCHANGED <<isRegeneratingTrip, regenRequests, altVars, manualEditModalOpen,
                 deleteVars, isSignedIn, planIsLoading, isLoading, costVars>>

\* --------------------------------------------------------- slot mutations

\* itinerary[dayIndex] is a day plan (dayIndex is zero-based and not negative).
DayInBounds(it, dayIndex) == dayIndex < Len(it.days)

\* (itinerary[dayIndex].activities as any)[period]
SlotAt(it, dayIndex, period) == it.days[dayIndex + 1][period]

\* SetSlot writing the period of every day instead of the one day's.
SetSlotEveryDay(it, dayIndex, period, value) ==
  [it EXCEPT !.days = [d \in DOMAIN it.days |-> [it.days[d] EXCEPT ![period] = value]]]

\* updatedItinerary = [...itinerary]; updatedItinerary[dayIndex].activities[period] = value
SetSlot(it, dayIndex, period, value) ==
  [it EXCEPT !.days[dayIndex + 1][period] = value]

\* Clamp without its floor: the sum is stored as it is.
ClampNoFloor(x) == x

\* Math.max(0, x)
Clamp(x) == IF x > 0 THEN x ELSE 0

\* Reconcile with Math.max left out of the total.
ReconcileTotalUnclamped(b, diff) ==
  [b EXCEPT !.activities = Clamp(b.activities + diff),
            !.total = b.total + diff]

\* setBudget({...budget, activities: Math.max(0, budget.activities + diff),
\*            total: Math.max(0, budget.total + diff)})
Reconcile(b, diff) ==
  [b EXCEPT !.activities = Clamp(b.activities + diff),
            !.total = Clamp(b.total + diff)]

\* handleActivityUpdate, action 'remove': the confirmation dialog opens.
RequestRemoval(ctx) ==
  /\ itemToDelete' = ctx
  /\ deleteDialogOpen' = TRUE
  /\ UNCHANGED <<altVars, manualEditModalOpen>>

\* handleActivityUpdate, action 'regenerate', up to its fetch.
RequestAlternatives(ctx) ==
  /\ isFetchingAlternatives' = TRUE
  /\ regenerateModalOpen' = TRUE
  /\ selectedContext' = ctx
  /\ alternatives' = <<>>
  /\ alternativesFor' = Null
  /\ altRequests' = Append(altRequests, ctx)
  /\ UNCHANGED <<deleteVars, manualEditModalOpen>>

\* handleActivityUpdate, action 'edit': the manual edit dialog opens.
OpenManualEdit(ctx) ==
  /\ selectedContext' = ctx
  /\ manualEditModalOpen' = TRUE
  /\ UNCHANGED <<isFetchingAlternatives, regenerateModalOpen, alternatives,
                 altRequests, alternativesFor, deleteVars>>

\* handleActivityUpdate(dayIndex, period, action), as TripView calls it for a
\* slot of the itinerary it renders, with an action of the list given.  Reading
\* currentDay.activities of a day that does not exist would throw.
ActivityUpdate(actions) ==
  /\ Rendered
  /\ \E dayIndex \in 0..(Len(itinerary.days) - 1), period \in Periods,
        k \in 1..Len(actions) :
       LET action == actions[k] IN
       /\ action = "regenerate" => Len(altRequests) < MaxInFlight
       /\ IF ~DayInBounds(itinerary, dayIndex)
          THEN /\ lastError' = "uncaught"
               /\ UNCHANGED <<altVars, manualEditModalOpen, deleteVars>>
          ELSE /\ lastError' = "none"
               /\ CASE action = "remove" -> RequestRemoval(Context(dayIndex, period))
                    [] action = "regenerate" ->
                         RequestAlternatives(Context(dayIndex, period))
                    [] action = "edit" -> OpenManualEdit(Context(dayIndex, period))
  /\ UNCHANGED <<tripVars, regenVars, saveVars, pageVars, costVars>>

handleActivityUpdate == ActivityUpdate(<<"regenerate", "edit", "remove">>)

\* handleActivityUpdate when TripView asks for removals only.
handleActivityRemove == ActivityUpdate(<<"remove">>)

\* The alternatives fetch answered OK.
AlternativesResponseOk ==
  /\ page = "preview"
  /\ \E i \in 1..Len(altRequests) :
       /\ altRequests' = RemoveAt(altRequests, i)
       /\ alternativesFor' = altRequests[i]
  /\ alternatives' = ServiceAlternatives
  /\ isFetchingAlternatives' = FALSE
  /\ lastError' = "none"
  /\ UNCHANGED <<tripVars, regenVars, regenerateModalOpen, selectedContext,
                 manualEditModalOpen, deleteVars, saveVars, pageVars, costVars>>

\* The alternatives fetch failed or answered non-OK: the dialog closes.
AlternativesResponseFail ==
  /\ page = "preview"
  /\ \E i \in 1..Len(altRequests) : altRequests' = RemoveAt(altRequests, i)
  /\ regenerateModalOpen' = FALSE
  /\ isFetchingAlternatives' = FALSE
  /\ lastError' = "alternatives"
  /\ UNCHANGED <<tripVars, regenVars, alternatives, alternativesFor, selectedContext,
                 manualEditModalOpen, deleteVars, saveVars, pageVars, costVars>>

\* onClose of RegenerateModal
RegenerateModalClose ==
  /\ Rendered /\ regenerateModalOpen
  /\ regenerateModalOpen' = FALSE
  /\ lastError' = "none"
  /\ UNCHANGED <<tripVars, regenVars, isFetchingAlternatives, alternatives, alternativesFor,
                 selectedContext, altRequests, manualEditModalOpen, deleteVars,
                 saveVars, pageVars, costVars>>

\* onClose of ManualEditModal
ManualEditModalClose ==
  /\ Rendered /\ manualEditModalOpen
  /\ manualEditModalOpen' = FALSE
  /\ lastError' = "none"
  /\ UNCHANGED <<tripVars, regenVars, altVars, deleteVars, saveVars, pageVars,
                 costVars>>

\* onOpenChange of the AlertDialog (Cancel): itemToDelete stays.
DeleteDialogClose ==
  /\ Rendered /\ deleteDialogOpen
  /\ deleteDialogOpen' = FALSE
  /\ lastError' = "none"
  /\ UNCHANGED <<tripVars, regenVars, altVars, manualEditModalOpen, itemToDelete,
                 saveVars, pageVars, costVars>>

\* handleConfirmDelete, the onClick of the dialog's Remove button.
handleConfirmDelete ==
  /\ Rendered /\ deleteDialogOpen
  /\ IF itemToDelete = Null \/ itinerary = Null \/ tripData = Null
     THEN /\ lastError' = "none"
          /\ UNCHANGED <<itinerary, budget, deleteVars>>
     ELSE LET dayIndex == itemToDelete.dayIndex
              period == itemToDelete.period
          IN  IF ~DayInBounds(itinerary, dayIndex)
              THEN \* currentDay is undefined: reading .activities throws
                   /\ lastError' = "uncaught"
                   /\ UNCHANGED <<itinerary, budget, deleteVars>>
              ELSE LET currentActivity == SlotAt(itinerary, dayIndex, period) IN
                   /\ itinerary' = SetSlot(itinerary, dayIndex, period, Null)
                   /\ IF budget # Null /\ currentActivity = Null
                      THEN \* currentActivity.cost throws after setItinerary
                           /\ lastError' = "uncaught"
                           /\ UNCHANGED <<budget, deleteVars>>
                      ELSE /\ budget' =
                                IF budget = Null THEN budget
                                ELSE Reconcile(budget,
                                       0 - PreviewPage_parseCost(currentActivity.cost))
                           /\ deleteDialogOpen' = FALSE
                           /\ itemToDelete' = Null
                           /\ lastError' = "none"
  /\ UNCHANGED <<weather, hotels, tripData, baseline, regenVars, altVars,
                 manualEditModalOpen, saveVars, pageVars, costVars>>

\* handleManualEditSave(updatedActivity), the onSave of ManualEditModal.
\* The whole body is inside try/catch, so nothing escapes it.
handleManualEditSave ==
  /\ Rendered /\ manualEditModalOpen
  /\ \E updatedActivity \in EditedActivities :
       IF selectedContext = Null \/ itinerary = Null
       THEN UNCHANGED <<itinerary, budget, manualEditModalOpen>>
       ELSE LET dayIndex == selectedContext.dayIndex
                period == selectedContext.period
            IN  IF ~DayInBounds(itinerary, dayIndex)
                THEN \* "Day index out of bounds"
                     UNCHANGED <<itinerary, budget, manualEditModalOpen>>
                ELSE LET oldActivity == SlotAt(itinerary, dayIndex, period) IN
                     IF oldActivity = Null
                     THEN \* "Old activity not found"
                          UNCHANGED <<itinerary, budget, manualEditModalOpen>>
                     ELSE /\ itinerary' =
                               SetSlot(itinerary, dayIndex, period, updatedActivity)
                          /\ manualEditModalOpen' = FALSE
                          /\ budget' =
                               IF budget = Null THEN budget
                               ELSE Reconcile(budget,
                                      PreviewPage_parseCost(updatedActivity.cost)
                                      - PreviewPage_parseCost(oldActivity.cost))
  /\ lastError' = "none"
  /\ UNCHANGED <<weather, hotels, tripData, baseline, regenVars, altVars, deleteVars,
                 saveVars, pageVars, costVars>>

\* handleAlternativeSelect(newActivity), the onSelect of RegenerateModal, which
\* offers the activities of alternatives.
handleAlternativeSelect ==
  /\ Rendered /\ regenerateModalOpen
  /\ \E k \in 1..Len(alternatives) :
       LET newActivity == alternatives[k] IN
       IF selectedContext = Null \/ itinerary = Null
       THEN /\ lastError' = "none"
            /\ UNCHANGED <<itinerary, budget, regenerateModalOpen>>
       ELSE LET dayIndex == selectedContext.dayIndex
                period == selectedContext.period
            IN  IF ~DayInBounds(itinerary, dayIndex)
                THEN \* currentDay is undefined: reading .activities throws
                     /\ lastError' = "uncaught"
                     /\ UNCHANGED <<itinerary, budget, regenerateModalOpen>>
                ELSE LET oldActivity == SlotAt(itinerary, dayIndex, period) IN
                     /\ itinerary' = SetSlot(itinerary, dayIndex, period, newActivity)
                     /\ regenerateModalOpen' = FALSE
                     /\ IF budget # Null /\ oldActivity = Null
                        THEN \* oldActivity.cost throws after setItinerary
                             /\ lastError' = "uncaught"
                             /\ UNCHANGED budget
                        ELSE /\ lastError' = "none"
                             /\ budget' =
                                  IF budget = Null THEN budget
                                  ELSE Reconcile(budget,
                                         PreviewPage_parseCost(newActivity.cost)
                                         - PreviewPage_parseCost(oldActivity.cost))
  /\ UNCHANGED <<weather, hotels, tripData, baseline, regenVars, isFetchingAlternatives,
                 alternatives, alternativesFor, selectedContext, altRequests,
                 manualEditModalOpen,
                 deleteVars, saveVars, pageVars, costVars>>

\* ---------------------------------------------------------------- browser

\* The browser reloads the preview page: a new document, nothing in flight.
Reload ==
  /\ page = "preview"
  /\ page' = "previewInit"
  /\ FreshPreviewPage
  /\ lastError' = "none"
  /\ UNCHANGED <<planIsLoading, localStorage, costVars>>

\* The browser opens the plan page for a new trip.
OpenPlanPage ==
  /\ page = "preview"
  /\ page' = "plan"
  /\ FreshPreviewPage
  /\ lastError' = "none"
  /\ UNCHANGED <<planIsLoading, localStorage, costVars>>

\* ------------------------------------------------------ the cost normaliser

\* The characters of the generated cost texts.
CostAlphabet == {"1", "2", "0", "-", "mdash", " ", "t", "o", "F", "r", "e", ".", "$"}

Texts(n) == UNION {[1..k -> CostAlphabet] : k \in 0..n}

\* The cost texts of the specification's examples.
LongTexts ==
  { <<"F", "r", "e", "e">>,
    <<"F", "R", "E", "E", " ", "e", "n", "t", "r", "y">>,
    <<"1", "5", "0", "0">>,
    <<"$", "1", ",", "5", "0", "0">>,
    <<"1", "2", ".", "5", "0">>,
    <<"a", "b", "c">>,
    <<"5", "0", "0", "-", "1", "0", "0", "0">>,
    <<"5", "0", "0", " ", "t", "o", " ", "1", "0", "0", "0">>,
    <<"5", "0", "0", "mdash", "1", "0", "0", "0">>,
    <<"8", "0", "ndash", "1", "2", "0">>,
    <<"5", "0", " ", "-", " ", "1", "0", "0">> }

CostInputs ==
  {Undefined, Null} \cup {Str(t) : t \in Texts(MaxLen) \cup LongTexts}
    \cup {Num(n) : n \in {0, 7, 1500}}

\* The page is not open; a cost value waits for the normaliser.
InitCost ==
  /\ page = "plan" /\ planIsLoading = FALSE /\ localStorage = Null
  /\ PreviewPageInitialState
  /\ lastError = "none"
  /\ costStr \in CostInputs
  /\ result = NotComputed

\* The normaliser the page's handlers call, applied to the value.
ApplyParseCost ==
  /\ result = NotComputed
  /\ result' = Num(PreviewPage_parseCost(costStr))
  /\ UNCHANGED <<tripVars, regenVars, altVars, manualEditModalOpen, deleteVars,
                 saveVars, pageVars, lastError, costStr>>

NextCost == ApplyParseCost

SpecCost == InitCost /\ [][NextCost]_vars

\* ------------------------------------------------------------ specifications

\* The preview page, hydrated from the stored answer of a second full
\* regeneration and past its authentication check: one more full regeneration
\* is permitted.
InitSession ==
  /\ page = "preview" /\ planIsLoading = FALSE
  /\ \E r \in GenerationResults :
       /\ localStorage = StoredTrip(r, FormData, Num(MAX_REGENERATIONS - 1))
       /\ itinerary = r.itinerary /\ budget = r.budget
       /\ weather = r.weather /\ hotels = r.hotels
       /\ baseline = [itinerary |-> r.itinerary, budget |-> r.budget]
  /\ tripData = FormData
  /\ isLoading = FALSE /\ isSaving = FALSE /\ isSignedIn = FALSE
  /\ isRegeneratingTrip = FALSE /\ isFetchingAlternatives = FALSE
  /\ regenerateModalOpen = FALSE /\ alternatives = <<>>
  /\ alternativesFor = Null
  /\ selectedContext = Null
  /\ regenerationCount = MAX_REGENERATIONS - 1
  /\ manualEditModalOpen = FALSE
  /\ deleteDialogOpen = FALSE /\ itemToDelete = Null
  /\ regenRequests = <<>> /\ altRequests = <<>> /\ saveStage = "idle"
  /\ lastError = "none"
  /\ costStr = Undefined /\ result = NotComputed

\* An editing session on the preview page: every slot operation, the three
\* dialogs and full regeneration.  Saving, the plan page and reloads are in
\* SpecLife; no handler of this specification reads what they write.
Next ==
  \/ handleActivityUpdate \/ AlternativesResponseOk \/ AlternativesResponseFail
  \/ RegenerateModalClose \/ ManualEditModalClose \/ DeleteDialogClose
  \/ handleConfirmDelete \/ handleManualEditSave \/ handleAlternativeSelect
  \/ handleFullRegeneration \/ RegenerationResponseOk \/ RegenerationResponseFail

Spec == InitSession /\ [][Next]_vars

\* The browser opens the preview page with nothing stored.
InitLife ==
  /\ page = "previewInit"
  /\ planIsLoading = FALSE
  /\ localStorage = Null
  /\ PreviewPageInitialState
  /\ lastError = "none"
  /\ costStr = Undefined /\ result = NotComputed

\* The life of a trip: generation on the plan page, hydration, full
\* regeneration, saving, reloads, and removals as the edits in between.
NextLife ==
  \/ handleGenerate \/ GenerateResponseOk \/ GenerateResponseFail
  \/ useEffect \/ checkAuth
  \/ handleFullRegeneration \/ RegenerationResponseOk \/ RegenerationResponseFail
  \/ handleSave \/ SaveGetUserResponse \/ SaveInsertResponse
  \/ handleActivityRemove \/ DeleteDialogClose \/ handleConfirmDelete
  \/ Reload \/ OpenPlanPage

SpecLife == InitLife /\ [][NextLife]_vars

\* ------------------------------------------------------------------ claims

\* The steps that write a slot.
RemovalStep == handleConfirmDelete
ReplacementStep == handleManualEditSave \/ handleAlternativeSelect
MutationStep == RemovalStep \/ ReplacementStep

\* The context a mutation step works on.
TargetContext == IF RemovalStep THEN itemToDelete ELSE selectedContext

\* The cost of what a slot holds by the page's normaliser; an empty slot
\* costs 0.
SlotCost(slot) == IF slot = Null THEN 0 ELSE PreviewPage_parseCost(slot.cost)

RECURSIVE DayCost(_, _)
DayCost(day, periods) ==
  IF periods = {} THEN 0
  ELSE LET p == CHOOSE q \in periods : TRUE
       IN  SlotCost(day[p]) + DayCost(day, periods \ {p})

RECURSIVE DaysCost(_, _)
DaysCost(days, n) ==
  IF n = 0 THEN 0
  ELSE DayCost(days[n], DOMAIN days[n]) + DaysCost(days, n - 1)

\* The sum of the page's parseCost over the occupied slots of an itinerary.
ItineraryCost(it) == DaysCost(it.days, Len(it.days))

\* C1: budget.activities and budget.total are never negative, in every state
\* reachable by removals, manual edits, alternative selections and full
\* regenerations.
C1_BudgetNeverNegative ==
  budget # Null => budget.activities >= 0 /\ budget.total >= 0

\* A decrement was clamped: the activities subtotal is 0 where the sum of the
\* adjustments since the last generation is below zero.
C1_ClampedAtZero ==
  /\ budget # Null /\ baseline # Null
  /\ budget.activities = 0
  /\ baseline.budget.activities
       + ItineraryCost(itinerary) - ItineraryCost(baseline.itinerary) < 0

\* What the targeted slot holds, when the target exists.
TargetInBounds ==
  TargetContext # Null /\ DayInBounds(itinerary, TargetContext.dayIndex)

OldActivity == SlotAt(itinerary, TargetContext.dayIndex, TargetContext.period)
NewActivity == SlotAt(itinerary', TargetContext.dayIndex, TargetContext.period)

\* C2: every change of a slot's activity is mirrored in the budget.  After a
\* removal, a manual edit or an alternative selection that changed the
\* itinerary, activities' = max(0, activities + delta) and
\* total' = max(0, total + delta), with delta the normalised cost of the new
\* activity minus that of the old one, an absent activity costing 0.  The
\* normaliser is the one the page applies, so that the statement does not
\* depend on how a range is resolved (C3).
C2_EveryChangeMirrored ==
  [][(MutationStep /\ itinerary' # itinerary)
       => budget' = Reconcile(budget, SlotCost(NewActivity) - SlotCost(OldActivity))]_vars

\* C3: the normaliser applied by budget reconciliation resolves a cost text
\* with a range separator to the largest of its segments' integers: when a
\* removal, manual edit or alternative selection replaces an activity and the
\* old or the new cost is a range, the budget moves by the difference of the
\* costs as the module-level parseCost resolves them.
RangeCost(slot) ==
  slot # Null /\ slot.cost.type = "string" /\ HasRangeSeparator(slot.cost.str)

ResolvedCost(slot) == IF slot = Null THEN 0 ELSE parseCost(slot.cost)

C3_RangeResolvesToMaximum ==
  [][(MutationStep /\ TargetInBounds /\ OldActivity # Null
        /\ (RangeCost(OldActivity) \/ RangeCost(NewActivity)))
       => budget' = Reconcile(budget, ResolvedCost(NewActivity) - ResolvedCost(OldActivity))]_vars

\* The dialogs' state.
dialogVars == <<regenerateModalOpen, alternatives, selectedContext,
                manualEditModalOpen, deleteDialogOpen, itemToDelete>>

\* C7: a slot mutation whose day index is out of bounds, or whose slot holds
\* no activity, is a no-op: it does not throw and it leaves the itinerary, the
\* budget and the dialogs as they were.
C7_InvalidTargetIsNoOp ==
  [][(MutationStep /\ TargetContext # Null
        /\ (~TargetInBounds \/ OldActivity = Null))
       => /\ lastError' # "uncaught"
          /\ UNCHANGED <<itinerary, budget, dialogVars>>]_vars

\* C8: a slot mutation changes the targeted slot only.  The number of days and
\* the keys of every day stay, every other slot holds what it held, and the
\* targeted slot of a removal holds null under its key; a mutation whose day
\* is out of bounds changes no slot.
SameShape(a, b) ==
  /\ Len(a.days) = Len(b.days)
  /\ \A d \in 1..Len(a.days) : DOMAIN a.days[d] = DOMAIN b.days[d]

C9_RoundTripRestoresBudget ==
  (budget # Null /\ baseline # Null) =>
    /\ itinerary = baseline.itinerary => budget = baseline.budget
    /\ budget.activities - baseline.budget.activities
         = ItineraryCost(itinerary) - ItineraryCost(baseline.itinerary)
    /\ budget.total - baseline.budget.total
         = ItineraryCost(itinerary) - ItineraryCost(baseline.itinerary)

\* C4: full regeneration is all-or-nothing on failure.  When the fetch of a
\* full regeneration fails, the itinerary, budget, weather, hotels,
\* regeneration count and stored item are what they were when the attempt
\* began; when a save fails (no signed-in user, or the insert answers with an
\* error), the failing step leaves all of them as they were.
C4_FailureIsAllOrNothing ==
  [][/\ RegenerationResponseFail =>
          /\ UNCHANGED Bundle
          /\ \E i \in 1..Len(regenRequests) :
               /\ regenRequests' = RemoveAt(regenRequests, i)
               /\ Bundle' = regenRequests[i].before
     /\ (SaveInsertResponse /\ lastError' = "save") => UNCHANGED Bundle
     /\ (SaveGetUserResponse /\ lastError' = "signin") => UNCHANGED Bundle]_vars

\* A full regeneration has failed on a trip that was regenerated once and then
\* edited: the edited itinerary and the count of 1 are still there.
C4_FailedAfterAnEdit ==
  /\ page = "preview" /\ lastError = "regenerate"
  /\ regenRequests = <<>> /\ ~isRegeneratingTrip
  /\ itinerary # Null /\ baseline # Null
  /\ itinerary # baseline.itinerary
  /\ regenerationCount = 1
  /\ localStorage.regenerationCount = Num(1)

\* C5: a full regeneration is permitted exactly when count < MAX.  The handler
\* issues a request if and only if the count is below MAX_REGENERATIONS, a
\* regeneration that succeeds raises the count by exactly 1, and no other step
\* of a preview session (a failed regeneration among them) changes it.  At
\* most one request is in flight, the page showing its loading screen instead
\* of TripView until the request is answered, so that the count a request
\* captured is the current one when its answer arrives.
C5_GateAndCount ==
  /\ [](Len(regenRequests) <= 1)
  /\ [][/\ Len(regenRequests') > Len(regenRequests)
             => regenerationCount < MAX_REGENERATIONS
        /\ (handleFullRegeneration /\ regenerationCount < MAX_REGENERATIONS)
             => Len(regenRequests') = Len(regenRequests) + 1
        /\ RegenerationResponseOk => regenerationCount' = regenerationCount + 1
        /\ RegenerationResponseFail => regenerationCount' = regenerationCount
        /\ (page = "preview" /\ page' = "preview" /\ ~RegenerationResponseOk)
             => regenerationCount' = regenerationCount]_vars

\* The count has reached MAX_REGENERATIONS by successful regenerations and
\* TripView is rendered, its regenerate callback available.
C5_GateClosed ==
  /\ Rendered
  /\ regenerationCount = MAX_REGENERATIONS
  /\ regenRequests = <<>>
  /\ localStorage.regenerationCount = Num(MAX_REGENERATIONS)

\* The count kept in the stored item.
CachedCount == CountOrZero(localStorage.regenerationCount)

\* C6: the regeneration counter is always within 0..MAX_REGENERATIONS, in
\* memory and in the stored item, the count hydrated on page entry is the
\* stored one, and the counter never decreases during a preview session.
C6_CounterBoundedMonotone ==
  /\ [](/\ regenerationCount \in 0..MAX_REGENERATIONS
        /\ localStorage # Null => CachedCount \in 0..MAX_REGENERATIONS
        /\ page = "preview" => CachedCount = regenerationCount)
  /\ [][(page = "preview" /\ page' = "preview")
          => regenerationCount' >= regenerationCount]_vars

\* The page was entered again after the last permitted regeneration: the count
\* just hydrated from the stored item is MAX_REGENERATIONS.
C6_HydratedAtMaximum ==
  /\ page = "preview" /\ isLoading
  /\ regenerationCount = MAX_REGENERATIONS
  /\ localStorage.regenerationCount = Num(MAX_REGENERATIONS)

\* The value the claim gives a cost, computed from the positions of the text
\* rather than by stripping and parsing it.
FreeLetters == <<{"f", "F"}, {"r", "R"}, {"e", "E"}, {"e", "E"}>>

ContainsFree(s) ==
  \E i \in 1..(Len(s) - 3) : \A k \in 1..4 : s[i + k - 1] \in FreeLetters[k]

DigitPositions(s) == {i \in 1..Len(s) : s[i] \in Digits}

RECURSIVE PowerOfTen(_)
PowerOfTen(n) == IF n = 0 THEN 1 ELSE 10 * PowerOfTen(n - 1)

\* The digit at position i counts for 10 to the number of digits after it.
RECURSIVE PlaceValues(_, _)
PlaceValues(s, positions) ==
  IF positions = {} THEN 0
  ELSE LET i == CHOOSE j \in positions : TRUE
           after == Cardinality({j \in DigitPositions(s) : j > i})
       IN  DigitVal(s[i]) * PowerOfTen(after) + PlaceValues(s, positions \ {i})

ExpectedCost(v) ==
  IF v.type \in {"null", "undefined"} THEN 0
  ELSE IF v.type = "number" THEN v.num
  ELSE IF ContainsFree(v.str) THEN 0
  ELSE PlaceValues(v.str, DigitPositions(v.str))

\* The examples the specification gives for the digit-stripping normaliser.
CostExamples ==
  { <<Undefined, 0>>, <<Null, 0>>,
    <<Str(<<"F", "r", "e", "e">>), 0>>,
    <<Str(<<"F", "R", "E", "E", " ", "e", "n", "t", "r", "y">>), 0>>,
    <<Str(<<>>), 0>>,
    <<Str(<<"a", "b", "c">>), 0>>,
    <<Str(<<"1", "5", "0", "0">>), 1500>>,
    <<Str(<<"$", "1", ",", "5", "0", "0">>), 1500>>,
    <<Str(<<"1", "2", ".", "5", "0">>), 1250>> }

C11_NoStaleAlternatives ==
  [][/\ AlternativesResponseOk => alternativesFor' = selectedContext
     /\ (handleAlternativeSelect /\ itinerary' # itinerary)
          => alternativesFor = selectedContext]_vars

\* The stored item holds what the page holds; a count that is not stored reads
\* as 0.
CacheMatchesMemory ==
  /\ localStorage # Null
  /\ localStorage.itinerary = itinerary
  /\ localStorage.budget = budget
  /\ localStorage.weather = weather
  /\ localStorage.hotels = hotels
  /\ localStorage.formData = tripData
  /\ CachedCount = regenerationCount

\* The insert of a save answered without an error.
SaveSucceeded == SaveInsertResponse /\ lastError' = "none"

\* C12: the stored item "currentTrip" is overwritten after every successful
\* generation, full regeneration and save.  Once the page has picked up a
\* generated trip, after a full regeneration that succeeded and after a save
\* that succeeded, the stored itinerary, budget, weather, hotels, trip
\* parameters and regeneration count are those the page holds, the slot
\* removals made before included.
C12_CacheFollowsMemory ==
  [][/\ (useEffect /\ page' = "preview") => CacheMatchesMemory'
     /\ RegenerationResponseOk => CacheMatchesMemory'
     /\ SaveSucceeded => CacheMatchesMemory']_vars

\* The activities subtotal of a budget is the sum of the page's parseCost over
\* the occupied slots of an itinerary.
Consistent(b, it) == b.activities = ItineraryCost(it)

\* C13: budget and itinerary stay consistent.  If budget.activities was the
\* sum of parseCost(activity.cost) over the occupied slots when the session
\* started or right after the last full regeneration, it is that sum after
\* any sequence of removal requests and confirmations, manual edits and
\* alternative selections, on empty slots too.
C13_BudgetMatchesItinerary ==
  (budget # Null /\ baseline # Null /\ Consistent(baseline.budget, baseline.itinerary))
    => Consistent(budget, itinerary)

\* C14: budget.total >= budget.activities is preserved.  A confirmed removal,
\* manual edit or alternative selection that starts with total >= activities
\* ends with it, also when one or both fields are clamped at zero; so it holds
\* in every state after a generated budget that had it.
C14_TotalCoversActivities ==
  /\ [][(budget' # budget /\ MutationStep /\ budget.total >= budget.activities)
          => budget'.total >= budget'.activities]_vars
  /\ []((budget # Null /\ baseline # Null
           /\ baseline.budget.total >= baseline.budget.activities)
          => budget.total >= budget.activities)

\* Both fields were clamped: the total is 0 where the sum of the adjustments
\* since the last generation would have taken it below zero.
C14_TotalClampedAtZero ==
  /\ budget # Null /\ baseline # Null
  /\ budget.total = 0 /\ budget.activities = 0
  /\ baseline.budget.total
       + ItineraryCost(itinerary) - ItineraryCost(baseline.itinerary) < 0

====
